---- MODULE Spec2Model ----
(***************************************************************************)
(* exospot: terminal player for 30 s previews.  The model follows          *)
(* src/main.rs: the main task (track driver and interaction loop), the     *)
(* input task, the render task (ui), the exit watcher, and one playback    *)
(* controller (stream_and_play_mp3) per track.                             *)
(***************************************************************************)
EXTENDS Integers, Sequences, FiniteSets, TLC

\* ---------------------------------------------------------------- bounds
NSongs == 2
MaxEvents == 3
MaxPlays == 4
MaxBurst == 9
MaxRedraws == 3
MaxSession == 2
MaxLen == 3
MaxCalls == 5
MaxChunks == 3
MaxChunkLen == 3
MaxBuf == 3
MaxReads == 5
BufCap == 2

\* capacity of the input queue, tokio::sync::mpsc::channel(8)
QueueCap == 8

Tracks == 1..NSongs
None == -1
EventKinds == {"Enter", "p", "q", "other", "Resize"}
PlayKinds == {"p", "Enter"}
BurstKinds == {"other"}
RedrawKinds == {"Enter", "Resize"}
SessionKinds == {"Enter", "p", "q", "Resize"}
Outcomes == {"ok", "fail", "stall"}
\* a bridge adapter over an empty body, never read
NoReader == [body |-> <<>>, chunks |-> <<>>, chunk |-> <<>>, eof |-> FALSE,
             buf |-> <<>>, out |-> <<>>, rets |-> <<>>]
NoEvent == [kind |-> "none", id |-> 0, recv |-> FALSE, song |-> 0]

VARIABLES
    proc,        \* "running" | "exited" (code 0) | "panicked" (main panicked)
    term,        \* "raw" (raw mode, alternate screen) | "restored"
    termLock,    \* Arc<Mutex<Terminal>>: "free" | "ui" | "main" | "exit"
    statesLock,  \* Arc<Mutex<States>>: "free" | "ui" | "main"
    hasUrl,      \* song.preview_url is Some, per track
    cur,         \* index of the song the for loop is at (0 before the loop)
    mainPc,      \* position of main
    sel,         \* spt_list.state.selected(): None or a 0-based index
    colors,      \* spt_list.items[i].1
    appVer,      \* version of the UI state cell; version k holds track k's view
    uiSeen,      \* version the render task's receiver has marked seen
    uiLocal,     \* the render task's local `state` (the version it holds)
    uiPc,        \* position of the render task
    updUnseen,   \* update_rx has an unseen "force redraw"
    inPc,        \* position of the input task
    held,        \* the event the input task is forwarding: its kind, its
                 \* arrival number, whether an interaction loop was receiving
                 \* when it arrived and the song the for loop was at
    nRead,       \* number of events read from the terminal
    queue,       \* the bounded input queue
    lastRecv,    \* the last event the interaction loop received
    exPc,        \* position of the exit watcher
    ctl,         \* position of each track's controller task
    sink,        \* number of sources in each controller's sink
    unseen,      \* the intent receiver has an unseen value, per track
    closed,      \* preview_tx has been dropped, per track
    attempts,    \* playback attempts started, per track
    stops,       \* sink.stop() calls made, per track
    intents,     \* Play intents sent, per track
    cause,       \* what made each controller panic: "none" | "device" | "fetch" | "probe"
    listLog,     \* the calls made on a selection list and the selection after each
    rd           \* one bridge adapter (Reader) over a chunked body and its reads

mainVars == <<hasUrl, cur, mainPc>>
listVars == <<sel, colors>>
uiVars == <<uiSeen, uiLocal, uiPc>>
inVars == <<inPc, held, nRead>>
ctlVars == <<ctl, sink, attempts, stops, cause>>
pureVars == <<listLog, rd>>
vars == <<proc, term, termLock, statesLock, hasUrl, cur, mainPc, sel, colors,
          appVer, uiSeen, uiLocal, uiPc, updUnseen, inPc, held, nRead, queue,
          lastRecv, exPc, ctl, sink, unseen, closed, attempts, stops, intents,
          cause, listLog, rd>>

\* ------------------------------------------------------- pure functions
nextNoWrap(s, n) == IF s = None THEN 0 ELSE IF s >= n - 1 THEN s ELSE s + 1
\* StatefulList::next
next(s, n) == IF s = None THEN 0 ELSE IF s >= n - 1 THEN 0 ELSE s + 1

previousNoWrap(s, n) == IF s = None THEN 0 ELSE IF s = 0 THEN 0 ELSE s - 1
\* StatefulList::previous
previous(s, n) == IF s = None THEN 0 ELSE IF s = 0 THEN n - 1 ELSE s - 1

\* ------------------------------------------------------- bridge adapter
Min(a, b) == IF a < b THEN a ELSE b
Take(q, n) == SubSeq(q, 1, Min(n, Len(q)))
Drop(q, n) == SubSeq(q, Min(n, Len(q)) + 1, Len(q))

\* the body chunks of the given lengths; the bytes of the body are numbered
\* 1, 2, ... in order, so a lost, repeated or reordered byte shows
RECURSIVE MkChunks(_, _)
MkChunks(lens, start) ==
    IF lens = <<>> THEN <<>>
    ELSE <<[i \in 1..Head(lens) |-> start + i]>>
           \o MkChunks(Tail(lens), start + Head(lens))

RECURSIVE Concat(_)
Concat(cs) == IF cs = <<>> THEN <<>> ELSE Head(cs) \o Concat(Tail(cs))

RECURSIVE Sum(_)
Sum(q) == IF q = <<>> THEN 0 ELSE Head(q) + Sum(Tail(q))

\* a chunk of length 0 ends the read with 0 bytes
RECURSIVE InnerReadNoSkip(_, _)
InnerReadNoSkip(r, n) ==
    IF r.chunk # <<>> THEN
        [r |-> [r EXCEPT !.chunk = Drop(r.chunk, n)], data |-> Take(r.chunk, n)]
    ELSE IF r.eof THEN [r |-> r, data |-> <<>>]
    ELSE IF r.chunks = <<>> THEN [r |-> [r EXCEPT !.eof = TRUE], data |-> <<>>]
    ELSE IF Head(r.chunks) = <<>>
        THEN [r |-> [r EXCEPT !.chunks = Tail(r.chunks)], data |-> <<>>]
    ELSE InnerReadNoSkip([r EXCEPT !.chunk = Head(r.chunks),
                                   !.chunks = Tail(r.chunks)], n)

\* bytes_stream().into_async_read(), one read into a buffer of n >= 1 bytes:
\* the rest of the chunk at hand, else the next chunk that is not empty, else
\* the end of the stream, which it remembers
RECURSIVE InnerRead(_, _)
InnerRead(r, n) ==
    IF r.chunk # <<>> THEN
        [r |-> [r EXCEPT !.chunk = Drop(r.chunk, n)], data |-> Take(r.chunk, n)]
    ELSE IF r.eof THEN [r |-> r, data |-> <<>>]
    ELSE IF r.chunks = <<>> THEN [r |-> [r EXCEPT !.eof = TRUE], data |-> <<>>]
    ELSE InnerRead([r EXCEPT !.chunk = Head(r.chunks),
                             !.chunks = Tail(r.chunks)], n)

\* BufReader::read into a buffer of n bytes: with nothing buffered and n at
\* least the capacity it reads straight from the inner reader, else it
\* refills its buffer when empty and copies from it
BufRead(r, n) ==
    IF r.buf = <<>> /\ n >= BufCap THEN InnerRead(r, n)
    ELSE LET f == IF r.buf = <<>> THEN InnerRead(r, BufCap)
                  ELSE [r |-> r, data |-> r.buf]
         IN [r |-> [f.r EXCEPT !.buf = Drop(f.data, n)], data |-> Take(f.data, n)]

\* tx.send(event) on the bounded queue
Enqueue(q, e) == Append(q, e)

DequeueLast(q) == [msg |-> q[Len(q)], rest |-> SubSeq(q, 1, Len(q) - 1)]
\* input_rx.recv()
Dequeue(q) == [msg |-> Head(q), rest |-> Tail(q)]

Constructing == {"fetch", "probe", "stalled"}
\* the intent receiver lives as long as the controller task does
RxAlive(k) == ctl[k] \in {"new", "wait"} \cup Constructing
\* _stream (the OutputStream) lives for the body of track k's iteration
StreamAlive(k) == cur = k /\ mainPc \in {"loop", "enterLock", "enterNext", "enterColor"}
Running == proc = "running"

\* ------------------------------------------------------------------ Init
\* the tasks as main has spawned them
InitTasks ==
    /\ proc = "running" /\ term = "raw"
    /\ termLock = "free" /\ statesLock = "free"
    /\ cur = 0 /\ mainPc = "init"
    /\ appVer = 0 /\ uiSeen = 0 /\ uiLocal = 0 /\ uiPc = "start"
    /\ updUnseen = FALSE
    /\ inPc = "read" /\ held = NoEvent /\ nRead = 0
    /\ queue = <<>> /\ lastRecv = NoEvent
    /\ exPc = "wait"
    /\ ctl = [k \in Tracks |-> "none"]
    /\ sink = [k \in Tracks |-> 0]
    /\ unseen = [k \in Tracks |-> FALSE]
    /\ closed = [k \in Tracks |-> FALSE]
    /\ attempts = [k \in Tracks |-> 0]
    /\ stops = [k \in Tracks |-> 0]
    /\ intents = [k \in Tracks |-> 0]
    /\ cause = [k \in Tracks |-> "none"]

\* StatefulList::with_items(vec![]): no items, nothing selected
InitCommon ==
    /\ InitTasks
    /\ sel = None /\ colors = <<>>
    /\ listLog = <<>> /\ rd = NoReader

Init == InitCommon /\ hasUrl \in [Tracks -> BOOLEAN]

\* ------------------------------------------------------------ main task
\* a panic in main: the hook restores the terminal, the process aborts
MainPanics ==
    /\ proc' = "panicked" /\ term' = "restored"

\* states.lock().await before the list is filled
MainInitLock ==
    /\ Running /\ mainPc = "init" /\ statesLock = "free"
    /\ statesLock' = "main" /\ mainPc' = "initList"
    /\ UNCHANGED <<proc, term, termLock, hasUrl, pureVars, cur, listVars, appVer, uiVars,
                   updUnseen, inVars, queue, lastRecv, exPc, ctlVars, unseen,
                   closed, intents>>

\* items = titles, all White; next(); the guard is dropped; the for loop starts
MainInitList ==
    /\ Running /\ mainPc = "initList"
    /\ colors' = [i \in 1..NSongs |-> "White"]
    /\ sel' = next(sel, NSongs)
    /\ statesLock' = "free"
    /\ cur' = 1 /\ mainPc' = "setup"
    /\ UNCHANGED <<proc, term, termLock, hasUrl, pureVars, appVer, uiVars, updUnseen,
                   inVars, queue, lastRecv, exPc, ctlVars, unseen, closed, intents>>

\* the track's queries and cover fetch, then tx.send(app_state)
MainPublish ==
    /\ Running /\ mainPc = "setup"
    /\ appVer' = cur
    /\ mainPc' = "spawn"
    /\ UNCHANGED <<proc, term, termLock, statesLock, hasUrl, pureVars, cur, listVars, uiVars,
                   updUnseen, inVars, queue, lastRecv, exPc, ctlVars, unseen,
                   closed, intents>>

\* the cover fetch of the track's setup, reqwest::get(image.url), never
\* completes: main stays in the setup of this track
MainSetupStalls ==
    /\ Running /\ mainPc = "setup"
    /\ mainPc' = "setupStalled"
    /\ UNCHANGED <<proc, term, termLock, statesLock, hasUrl, pureVars, cur, listVars, appVer,
                   uiVars, updUnseen, inVars, queue, lastRecv, exPc, ctlVars, unseen,
                   closed, intents>>

MainSpawnDropping ==
    /\ Running /\ mainPc = "spawn"
    /\ \E dev \in BOOLEAN:
        IF dev
        THEN /\ mainPc' = "loop"
             /\ ctl' = IF hasUrl[cur] THEN [ctl EXCEPT ![cur] = "new"] ELSE ctl
             /\ queue' = <<>>
             /\ UNCHANGED <<proc, term>>
        ELSE /\ MainPanics
             /\ UNCHANGED <<mainPc, ctl, queue>>
    /\ UNCHANGED <<termLock, statesLock, hasUrl, pureVars, cause, cur, listVars, appVer, uiVars,
                   updUnseen, inVars, lastRecv, exPc, sink, attempts, stops,
                   unseen, closed, intents>>

\* the intent channel, OutputStream::try_default().unwrap(), the controller spawn
MainSpawn ==
    /\ Running /\ mainPc = "spawn"
    /\ \E dev \in BOOLEAN:
        IF dev
        THEN /\ mainPc' = "loop"
             /\ ctl' = IF hasUrl[cur] THEN [ctl EXCEPT ![cur] = "new"] ELSE ctl
             /\ UNCHANGED <<proc, term>>
        ELSE /\ MainPanics
             /\ UNCHANGED <<mainPc, ctl>>
    /\ UNCHANGED <<termLock, statesLock, hasUrl, pureVars, cause, cur, listVars, appVer, uiVars,
                   updUnseen, inVars, queue, lastRecv, exPc, sink, attempts, stops,
                   unseen, closed, intents>>

\* one turn of the interaction loop: input_rx.recv() and the match on the key
MainRecv ==
    /\ Running /\ mainPc = "loop" /\ queue # <<>>
    /\ LET d == Dequeue(queue) IN
        /\ queue' = d.rest
        /\ lastRecv' = d.msg
        /\ CASE d.msg.kind = "Enter" ->
                  /\ mainPc' = "enterLock"
                  /\ UNCHANGED <<proc, term, unseen, intents>>
             [] d.msg.kind = "p" /\ hasUrl[cur] /\ RxAlive(cur) ->
                  /\ unseen' = [unseen EXCEPT ![cur] = TRUE]
                  /\ intents' = [intents EXCEPT ![cur] = @ + 1]
                  /\ UNCHANGED <<proc, term, mainPc>>
             [] d.msg.kind = "p" /\ hasUrl[cur] /\ ~RxAlive(cur) ->
                  \* preview_tx.send(..).unwrap() with the receiver gone
                  /\ MainPanics
                  /\ UNCHANGED <<mainPc, unseen, intents>>
             [] OTHER ->
                  UNCHANGED <<proc, term, mainPc, unseen, intents>>
    /\ UNCHANGED <<termLock, statesLock, hasUrl, pureVars, cur, listVars, appVer, uiVars,
                   updUnseen, inVars, exPc, ctlVars, closed>>

MainEnterLockNoWait ==
    /\ Running /\ mainPc = "enterLock"
    /\ statesLock' = "main" /\ mainPc' = "enterNext"
    /\ UNCHANGED <<proc, term, termLock, hasUrl, pureVars, cur, listVars, appVer, uiVars,
                   updUnseen, inVars, queue, lastRecv, exPc, ctlVars, unseen,
                   closed, intents>>

\* KeyCode::Enter: states.lock().await
MainEnterLock ==
    /\ Running /\ mainPc = "enterLock" /\ statesLock = "free"
    /\ statesLock' = "main" /\ mainPc' = "enterNext"
    /\ UNCHANGED <<proc, term, termLock, hasUrl, pureVars, cur, listVars, appVer, uiVars,
                   updUnseen, inVars, queue, lastRecv, exPc, ctlVars, unseen,
                   closed, intents>>

MainEnterNextStay ==
    /\ Running /\ mainPc = "enterNext"
    /\ mainPc' = "enterColor"
    /\ UNCHANGED <<proc, term, termLock, statesLock, hasUrl, pureVars, cur, sel, colors, appVer,
                   uiVars, updUnseen, inVars, queue, lastRecv, exPc, ctlVars,
                   unseen, closed, intents>>

\* lock.spt_list.next()
MainEnterNext ==
    /\ Running /\ mainPc = "enterNext"
    /\ sel' = next(sel, NSongs)
    /\ mainPc' = "enterColor"
    /\ UNCHANGED <<proc, term, termLock, statesLock, hasUrl, pureVars, cur, colors, appVer,
                   uiVars, updUnseen, inVars, queue, lastRecv, exPc, ctlVars,
                   unseen, closed, intents>>

\* items[selected].1 = Green; break 'outer: the guard, preview_tx and _stream
\* are dropped and the for loop moves on
MainEnterColor ==
    /\ Running /\ mainPc = "enterColor"
    /\ colors' = [colors EXCEPT ![sel + 1] = "Green"]
    /\ statesLock' = "free"
    /\ closed' = [closed EXCEPT ![cur] = TRUE]
    /\ IF cur < NSongs
       THEN cur' = cur + 1 /\ mainPc' = "setup"
       ELSE cur' = cur /\ mainPc' = "finish"
    /\ UNCHANGED <<proc, term, termLock, hasUrl, pureVars, sel, appVer, uiVars, updUnseen,
                   inVars, queue, lastRecv, exPc, ctlVars, unseen, intents>>

\* after the last track: terminal.lock().await, restore_terminal, main returns
MainFinish ==
    /\ Running /\ mainPc = "finish" /\ termLock = "free"
    /\ term' = "restored" /\ proc' = "exited"
    /\ mainPc' = "done"
    /\ UNCHANGED <<termLock, statesLock, hasUrl, pureVars, cur, listVars, appVer, uiVars,
                   updUnseen, inVars, queue, lastRecv, exPc, ctlVars, unseen,
                   closed, intents>>

\* ----------------------------------------------------------- input task
\* reader.next().await and the match: 'q' breaks, Resize signals a redraw,
\* every other event goes on to tx.send
InputRead(e, bound) ==
    /\ Running /\ inPc = "read" /\ nRead < bound
    /\ nRead' = nRead + 1
    /\ IF e = "q"
       THEN inPc' = "done" /\ held' = held
       ELSE /\ inPc' = "send"
            /\ held' = [kind |-> e, id |-> nRead + 1,
                        recv |-> (mainPc = "loop"), song |-> cur]
    /\ updUnseen' = IF e = "Resize" THEN TRUE ELSE updUnseen
    /\ UNCHANGED <<proc, term, termLock, statesLock, mainVars, pureVars, listVars, appVer,
                   uiVars, queue, lastRecv, exPc, ctlVars, unseen, closed, intents>>

InputSendWhenIdle ==
    /\ Running /\ inPc = "send" /\ Len(queue) < QueueCap
    /\ \A k \in Tracks: ctl[k] \notin Constructing
    /\ queue' = Enqueue(queue, held)
    /\ held' = NoEvent
    /\ inPc' = "read"
    /\ UNCHANGED <<proc, term, termLock, statesLock, mainVars, pureVars, listVars, appVer,
                   uiVars, updUnseen, nRead, lastRecv, exPc, ctlVars, unseen,
                   closed, intents>>

\* tx.send(event).await: waits while the queue holds QueueCap events
InputSend ==
    /\ Running /\ inPc = "send" /\ Len(queue) < QueueCap
    /\ queue' = Enqueue(queue, held)
    /\ held' = NoEvent
    /\ inPc' = "read"
    /\ UNCHANGED <<proc, term, termLock, statesLock, mainVars, pureVars, listVars, appVer,
                   uiVars, updUnseen, nRead, lastRecv, exPc, ctlVars, unseen,
                   closed, intents>>

\* ---------------------------------------------------------- render task
\* let mut state = rx.borrow().to_owned()
UiStart ==
    /\ Running /\ uiPc = "start"
    /\ uiLocal' = appVer
    /\ uiPc' = "wait"
    /\ UNCHANGED <<proc, term, termLock, statesLock, mainVars, pureVars, listVars, appVer,
                   uiSeen, updUnseen, inVars, queue, lastRecv, exPc, ctlVars,
                   unseen, closed, intents>>

UiWakeBoth ==
    /\ Running /\ uiPc = "wait" /\ updUnseen
    /\ updUnseen' = FALSE
    /\ uiSeen' = appVer
    /\ uiPc' = "lockTerm"
    /\ UNCHANGED <<proc, term, termLock, statesLock, mainVars, pureVars, listVars, appVer,
                   uiLocal, inVars, queue, lastRecv, exPc, ctlVars, unseen,
                   closed, intents>>

\* select!: rx.changed() completes and marks the newest version seen
UiWakeState ==
    /\ Running /\ uiPc = "wait" /\ uiSeen # appVer
    /\ uiSeen' = appVer
    /\ uiPc' = "borrow"
    /\ UNCHANGED <<proc, term, termLock, statesLock, mainVars, pureVars, listVars, appVer,
                   uiLocal, updUnseen, inVars, queue, lastRecv, exPc, ctlVars,
                   unseen, closed, intents>>

\* state = rx.borrow().to_owned()
UiBorrow ==
    /\ Running /\ uiPc = "borrow"
    /\ uiLocal' = appVer
    /\ uiPc' = "lockTerm"
    /\ UNCHANGED <<proc, term, termLock, statesLock, mainVars, pureVars, listVars, appVer,
                   uiSeen, updUnseen, inVars, queue, lastRecv, exPc, ctlVars,
                   unseen, closed, intents>>

\* select!: update_rx.changed() completes; `state` is left as it is
UiWakeResize ==
    /\ Running /\ uiPc = "wait" /\ updUnseen
    /\ updUnseen' = FALSE
    /\ uiPc' = "lockTerm"
    /\ UNCHANGED <<proc, term, termLock, statesLock, mainVars, pureVars, listVars, appVer,
                   uiSeen, uiLocal, inVars, queue, lastRecv, exPc, ctlVars,
                   unseen, closed, intents>>

\* term.lock().await
UiLockTerm ==
    /\ Running /\ uiPc = "lockTerm" /\ termLock = "free"
    /\ termLock' = "ui"
    /\ uiPc' = "lockStates"
    /\ UNCHANGED <<proc, term, statesLock, mainVars, pureVars, listVars, appVer, uiSeen,
                   uiLocal, updUnseen, inVars, queue, lastRecv, exPc, ctlVars,
                   unseen, closed, intents>>

\* states.lock().await
UiLockStates ==
    /\ Running /\ uiPc = "lockStates" /\ statesLock = "free"
    /\ statesLock' = "ui"
    /\ uiPc' = "draw"
    /\ UNCHANGED <<proc, term, termLock, mainVars, pureVars, listVars, appVer, uiSeen,
                   uiLocal, updUnseen, inVars, queue, lastRecv, exPc, ctlVars,
                   unseen, closed, intents>>

\* draw(&mut terminal, &state, &mut states_lck); both guards are dropped
UiDraw ==
    /\ Running /\ uiPc = "draw"
    /\ termLock' = "free" /\ statesLock' = "free"
    /\ uiPc' = "wait"
    /\ UNCHANGED <<proc, term, mainVars, pureVars, listVars, appVer, uiSeen, uiLocal,
                   updUnseen, inVars, queue, lastRecv, exPc, ctlVars, unseen,
                   closed, intents>>

\* --------------------------------------------------------- exit watcher
\* select! { task, input_task }: the input task has ended
ExitWake ==
    /\ Running /\ exPc = "wait" /\ inPc = "done"
    /\ exPc' = "lock"
    /\ UNCHANGED <<proc, term, termLock, statesLock, mainVars, pureVars, listVars, appVer,
                   uiVars, updUnseen, inVars, queue, lastRecv, ctlVars, unseen,
                   closed, intents>>

ExitNoRestore ==
    /\ Running /\ exPc = "lock" /\ termLock = "free"
    /\ proc' = "exited"
    /\ exPc' = "done"
    /\ UNCHANGED <<term, termLock, statesLock, mainVars, pureVars, listVars, appVer,
                   uiVars, updUnseen, inVars, queue, lastRecv, ctlVars, unseen,
                   closed, intents>>

\* term.lock().await; restore_terminal; exit(0)
ExitRestore ==
    /\ Running /\ exPc = "lock" /\ termLock = "free"
    /\ term' = "restored" /\ proc' = "exited"
    /\ exPc' = "done"
    /\ UNCHANGED <<termLock, statesLock, mainVars, pureVars, listVars, appVer, uiVars,
                   updUnseen, inVars, queue, lastRecv, ctlVars, unseen, closed,
                   intents>>

\* --------------------------------------------- controller, one per track
\* a panic in the controller task: the hook restores the terminal, the task
\* ends, its receiver and its sink are dropped; the process goes on
CtlPanics(k) ==
    /\ ctl' = [ctl EXCEPT ![k] = "panicked"]
    /\ sink' = [sink EXCEPT ![k] = 0]
    /\ term' = "restored"

\* Sink::try_new(&stream_handle).unwrap()
CtlStart(k) ==
    /\ Running /\ ctl[k] = "new"
    /\ \E dev \in BOOLEAN:
        IF dev
        THEN ctl' = [ctl EXCEPT ![k] = "wait"] /\ UNCHANGED <<sink, term, cause>>
        ELSE CtlPanics(k) /\ cause' = [cause EXCEPT ![k] = "device"]
    /\ UNCHANGED <<proc, termLock, statesLock, mainVars, pureVars, listVars, appVer, uiVars,
                   updUnseen, inVars, queue, lastRecv, exPc, attempts, stops,
                   unseen, closed, intents>>

CtlConsumeNoStart(k) ==
    /\ Running /\ ctl[k] = "wait" /\ unseen[k]
    /\ unseen' = [unseen EXCEPT ![k] = FALSE]
    /\ sink' = [sink EXCEPT ![k] = 0]
    /\ stops' = [stops EXCEPT ![k] = @ + 1]
    /\ UNCHANGED <<ctl, attempts>>
    /\ UNCHANGED <<proc, term, termLock, statesLock, mainVars, pureVars, listVars, appVer,
                   uiVars, updUnseen, inVars, queue, lastRecv, exPc, closed, intents,
                   cause>>

CtlConsumeRestart(k) ==
    /\ Running /\ ctl[k] = "wait" /\ unseen[k]
    /\ unseen' = [unseen EXCEPT ![k] = FALSE]
    /\ sink' = [sink EXCEPT ![k] = 0]
    /\ stops' = IF sink[k] > 0 THEN [stops EXCEPT ![k] = @ + 1] ELSE stops
    /\ ctl' = [ctl EXCEPT ![k] = "fetch"]
    /\ attempts' = [attempts EXCEPT ![k] = @ + 1]
    /\ UNCHANGED <<proc, term, termLock, statesLock, mainVars, pureVars, listVars, appVer,
                   uiVars, updUnseen, inVars, queue, lastRecv, exPc, closed, intents,
                   cause>>

CtlConsumeNoCheck(k) ==
    /\ Running /\ ctl[k] = "wait" /\ unseen[k]
    /\ unseen' = [unseen EXCEPT ![k] = FALSE]
    /\ ctl' = [ctl EXCEPT ![k] = "fetch"]
    /\ attempts' = [attempts EXCEPT ![k] = @ + 1]
    /\ UNCHANGED <<sink, stops>>
    /\ UNCHANGED <<proc, term, termLock, statesLock, mainVars, pureVars, listVars, appVer,
                   uiVars, updUnseen, inVars, queue, lastRecv, exPc, closed, intents,
                   cause>>

CtlConsumeAnyTime(k) ==
    /\ Running /\ ctl[k] \in {"wait", "fetch", "probe"} /\ unseen[k]
    /\ unseen' = [unseen EXCEPT ![k] = FALSE]
    /\ IF sink[k] > 0
       THEN /\ sink' = [sink EXCEPT ![k] = 0]
            /\ stops' = [stops EXCEPT ![k] = @ + 1]
            /\ UNCHANGED <<ctl, attempts>>
       ELSE /\ ctl' = [ctl EXCEPT ![k] = "fetch"]
            /\ attempts' = [attempts EXCEPT ![k] = @ + 1]
            /\ UNCHANGED <<sink, stops>>
    /\ UNCHANGED <<proc, term, termLock, statesLock, mainVars, pureVars, listVars, appVer,
                   uiVars, updUnseen, inVars, queue, lastRecv, exPc, closed, intents,
                   cause>>

CtlConsumeKeepUnseen(k) ==
    /\ Running /\ ctl[k] = "wait" /\ unseen[k]
    /\ UNCHANGED unseen
    /\ IF sink[k] > 0
       THEN /\ sink' = [sink EXCEPT ![k] = 0]
            /\ stops' = [stops EXCEPT ![k] = @ + 1]
            /\ UNCHANGED <<ctl, attempts>>
       ELSE /\ ctl' = [ctl EXCEPT ![k] = "fetch"]
            /\ attempts' = [attempts EXCEPT ![k] = @ + 1]
            /\ UNCHANGED <<sink, stops>>
    /\ UNCHANGED <<proc, term, termLock, statesLock, mainVars, pureVars, listVars, appVer,
                   uiVars, updUnseen, inVars, queue, lastRecv, exPc, closed, intents,
                   cause>>

\* rx.changed().await is Ok: the intent is marked seen; a non-empty sink is
\* stopped and the loop continues, an empty one starts an attempt
CtlConsume(k) ==
    /\ Running /\ ctl[k] = "wait" /\ unseen[k]
    /\ unseen' = [unseen EXCEPT ![k] = FALSE]
    /\ IF sink[k] > 0
       THEN /\ sink' = [sink EXCEPT ![k] = 0]
            /\ stops' = [stops EXCEPT ![k] = @ + 1]
            /\ UNCHANGED <<ctl, attempts>>
       ELSE /\ ctl' = [ctl EXCEPT ![k] = "fetch"]
            /\ attempts' = [attempts EXCEPT ![k] = @ + 1]
            /\ UNCHANGED <<sink, stops>>
    /\ UNCHANGED <<proc, term, termLock, statesLock, mainVars, pureVars, listVars, appVer,
                   uiVars, updUnseen, inVars, queue, lastRecv, exPc, closed, intents,
                   cause>>

\* rx.changed().await is Err: nothing unseen and the sender is dropped; the
\* while loop ends and the sink is dropped
CtlClosed(k) ==
    /\ Running /\ ctl[k] = "wait" /\ ~unseen[k] /\ closed[k]
    /\ ctl' = [ctl EXCEPT ![k] = "ended"]
    /\ sink' = [sink EXCEPT ![k] = 0]
    /\ UNCHANGED <<proc, term, termLock, statesLock, mainVars, pureVars, cause, listVars, appVer,
                   uiVars, updUnseen, inVars, queue, lastRecv, exPc, attempts,
                   stops, unseen, closed, intents>>

\* reqwest::get(&mp3_url).await.unwrap()
CtlFetch(k) ==
    /\ Running /\ ctl[k] = "fetch"
    /\ \E r \in Outcomes:
        CASE r = "ok" -> ctl' = [ctl EXCEPT ![k] = "probe"] /\ UNCHANGED <<sink, term, cause>>
          [] r = "stall" -> ctl' = [ctl EXCEPT ![k] = "stalled"] /\ UNCHANGED <<sink, term, cause>>
          [] r = "fail" -> CtlPanics(k) /\ cause' = [cause EXCEPT ![k] = "fetch"]
    /\ UNCHANGED <<proc, termLock, statesLock, mainVars, pureVars, listVars, appVer, uiVars,
                   updUnseen, inVars, queue, lastRecv, exPc, attempts, stops,
                   unseen, closed, intents>>

CtlProbeRetry(k) ==
    /\ Running /\ ctl[k] = "probe"
    /\ \E r \in Outcomes:
        CASE r = "ok" -> /\ ctl' = [ctl EXCEPT ![k] = "wait"]
                         /\ sink' = [sink EXCEPT ![k] = @ + 1]
                         /\ UNCHANGED <<term, cause, attempts>>
          [] r = "stall" -> /\ ctl' = [ctl EXCEPT ![k] = "stalled"]
                            /\ UNCHANGED <<sink, term, cause, attempts>>
          [] r = "fail" -> /\ ctl' = [ctl EXCEPT ![k] = "fetch"]
                           /\ cause' = [cause EXCEPT ![k] = "probe"]
                           /\ attempts' = [attempts EXCEPT ![k] = Min(@ + 1, MaxPlays)]
                           /\ UNCHANGED <<sink, term>>
    /\ UNCHANGED <<proc, termLock, statesLock, mainVars, pureVars, listVars, appVer, uiVars,
                   updUnseen, inVars, queue, lastRecv, exPc, stops,
                   unseen, closed, intents>>

\* the adapter, the probe in spawn_blocking (unwrap twice), sink.append(decoder)
CtlProbe(k) ==
    /\ Running /\ ctl[k] = "probe"
    /\ \E r \in Outcomes:
        CASE r = "ok" -> /\ ctl' = [ctl EXCEPT ![k] = "wait"]
                         /\ sink' = [sink EXCEPT ![k] = @ + 1]
                         /\ UNCHANGED <<term, cause>>
          [] r = "stall" -> ctl' = [ctl EXCEPT ![k] = "stalled"] /\ UNCHANGED <<sink, term, cause>>
          [] r = "fail" -> CtlPanics(k) /\ cause' = [cause EXCEPT ![k] = "probe"]
    /\ UNCHANGED <<proc, termLock, statesLock, mainVars, pureVars, listVars, appVer, uiVars,
                   updUnseen, inVars, queue, lastRecv, exPc, attempts, stops,
                   unseen, closed, intents>>

\* any step of track k's controller task
CtlStep(k) ==
    CtlStart(k) \/ CtlConsume(k) \/ CtlClosed(k) \/ CtlFetch(k) \/ CtlProbe(k)

\* the appended source plays to its end (or a decode error ends it early)
SinkDrain(k) ==
    /\ Running /\ sink[k] > 0 /\ StreamAlive(k)
    /\ sink' = [sink EXCEPT ![k] = @ - 1]
    /\ UNCHANGED <<proc, term, termLock, statesLock, mainVars, pureVars, cause, listVars, appVer,
                   uiVars, updUnseen, inVars, queue, lastRecv, exPc, ctl, attempts,
                   stops, unseen, closed, intents>>

\* ------------------------------------------------- selection list calls
\* everything but the list and the record of the calls made on it
notPure == <<proc, term, termLock, statesLock, mainVars, colors, appVer, uiVars,
             updUnseen, inVars, queue, lastRecv, exPc, ctlVars, unseen, closed,
             intents>>
notList == <<notPure, rd>>

\* list.next()
ListNext ==
    /\ Len(listLog) < MaxCalls
    /\ sel' = next(sel, Len(colors))
    /\ listLog' = Append(listLog, [op |-> "next", from |-> sel, to |-> sel'])
    /\ UNCHANGED notList

\* list.previous()
ListPrevious ==
    /\ Len(listLog) < MaxCalls
    /\ sel' = previous(sel, Len(colors))
    /\ listLog' = Append(listLog, [op |-> "previous", from |-> sel, to |-> sel'])
    /\ UNCHANGED notList

\* list.unselect()
ListUnselect ==
    /\ Len(listLog) < MaxCalls
    /\ sel' = None
    /\ listLog' = Append(listLog, [op |-> "unselect", from |-> sel, to |-> sel'])
    /\ UNCHANGED notList

\* --------------------------------------------------- bridge adapter reads
\* Reader::read(buf) with a buffer of n bytes: blocks on the buffered read
\* and returns the number of bytes it put in buf
ReaderRead(n) ==
    /\ Len(rd.rets) < MaxReads
    /\ LET res == BufRead(rd, n) IN
         rd' = [res.r EXCEPT !.out = rd.out \o res.data,
                             !.rets = Append(rd.rets, Len(res.data))]
    /\ UNCHANGED <<notPure, sel, listLog>>

\* ------------------------------------------------------- specifications
Next ==
    \/ MainInitLock \/ MainInitList \/ MainPublish \/ MainSpawn \/ MainRecv
    \/ MainEnterLock \/ MainEnterNext \/ MainEnterColor \/ MainFinish
    \/ \E e \in EventKinds: InputRead(e, MaxEvents)
    \/ InputSend
    \/ UiStart \/ UiWakeState \/ UiBorrow \/ UiWakeResize
    \/ UiLockTerm \/ UiLockStates \/ UiDraw
    \/ ExitWake \/ ExitRestore
    \/ \E k \in Tracks: CtlStart(k)
    \/ \E k \in Tracks: CtlConsume(k)
    \/ \E k \in Tracks: CtlClosed(k)
    \/ \E k \in Tracks: CtlFetch(k)
    \/ \E k \in Tracks: CtlProbe(k)
    \/ \E k \in Tracks: SinkDrain(k)

Spec == Init /\ [][Next]_vars

MainNext ==
    \/ MainInitLock \/ MainInitList \/ MainPublish \/ MainSpawn \/ MainRecv
    \/ MainEnterLock \/ MainEnterNext \/ MainEnterColor \/ MainFinish

\* playback: every track has a preview; the user plays and advances
InitPlay == InitCommon /\ hasUrl = [k \in Tracks |-> TRUE]
NextPlay ==
    \/ MainNext
    \/ \E e \in PlayKinds: InputRead(e, MaxPlays)
    \/ InputSend
    \/ \E k \in Tracks: CtlStart(k)
    \/ \E k \in Tracks: CtlConsume(k)
    \/ \E k \in Tracks: CtlClosed(k)
    \/ \E k \in Tracks: CtlFetch(k)
    \/ \E k \in Tracks: CtlProbe(k)
    \/ \E k \in Tracks: SinkDrain(k)
SpecPlay == InitPlay /\ [][NextPlay]_vars

\* the input queue: no track has a preview; a burst of keys bound to nothing,
\* so the first track's loop receives them all
InitInput == InitCommon /\ hasUrl = [k \in Tracks |-> FALSE]
NextInput ==
    \/ MainInitLock \/ MainInitList \/ MainPublish \/ MainSpawn \/ MainRecv
    \/ \E e \in BurstKinds: InputRead(e, MaxBurst)
    \/ InputSend
SpecInput == InitInput /\ [][NextInput]_vars

\* rendering: no track has a preview; the user advances and resizes
NextRedraw ==
    \/ MainNext
    \/ \E e \in RedrawKinds: InputRead(e, MaxRedraws)
    \/ InputSend
    \/ UiStart \/ UiWakeState \/ UiBorrow \/ UiWakeResize
    \/ UiLockTerm \/ UiLockStates \/ UiDraw
SpecRedraw == InitInput /\ [][NextRedraw]_vars

\* quitting: no track has a preview; the user presses up to MaxBurst keys
\* bound to nothing and then, at the latest as the next key, 'q'; the setup
\* of a track may stall on its cover fetch.  Every task that can take a
\* step is eventually polled by the runtime.
NextQuit ==
    \/ MainInitLock \/ MainInitList \/ MainPublish \/ MainSetupStalls
    \/ MainSpawn \/ MainRecv
    \/ \E e \in BurstKinds: InputRead(e, MaxBurst)
    \/ InputRead("q", MaxBurst + 1)
    \/ InputSend
    \/ ExitWake \/ ExitRestore
FairQuit ==
    /\ WF_vars(MainInitLock) /\ WF_vars(MainInitList) /\ WF_vars(MainPublish)
    /\ WF_vars(MainSpawn) /\ WF_vars(MainRecv)
    /\ WF_vars(InputRead("q", MaxBurst + 1)) /\ WF_vars(InputSend)
    /\ WF_vars(ExitWake) /\ WF_vars(ExitRestore)
SpecQuit == InitInput /\ [][NextQuit]_vars /\ FairQuit

\* a whole session: every track has a preview; the user plays, advances,
\* resizes and quits, and every task runs
NextSession ==
    \/ MainNext
    \/ \E e \in SessionKinds: InputRead(e, MaxSession)
    \/ InputSend
    \/ UiStart \/ UiWakeState \/ UiBorrow \/ UiWakeResize
    \/ UiLockTerm \/ UiLockStates \/ UiDraw
    \/ ExitWake \/ ExitRestore
    \/ \E k \in Tracks: CtlStart(k)
    \/ \E k \in Tracks: CtlConsume(k)
    \/ \E k \in Tracks: CtlClosed(k)
    \/ \E k \in Tracks: CtlFetch(k)
    \/ \E k \in Tracks: CtlProbe(k)
    \/ \E k \in Tracks: SinkDrain(k)
SpecSession == InitPlay /\ [][NextSession]_vars

\* the selection list alone: StatefulList::with_items on 1..MaxLen items,
\* nothing selected, then any calls of next, previous and unselect
InitList ==
    /\ InitTasks
    /\ hasUrl = [k \in Tracks |-> FALSE]
    /\ sel = None
    /\ \E n \in 1..MaxLen: colors = [i \in 1..n |-> "White"]
    /\ listLog = <<>> /\ rd = NoReader
NextList == ListNext \/ ListPrevious \/ ListUnselect
SpecList == InitList /\ [][NextList]_vars

\* the bridge adapter alone: a body of up to MaxChunks chunks of 0..MaxChunkLen
\* bytes each, then reads into buffers of 1..MaxBuf bytes
InitReader ==
    /\ InitTasks
    /\ hasUrl = [k \in Tracks |-> TRUE]
    /\ sel = None /\ colors = <<>> /\ listLog = <<>>
    /\ \E m \in 0..MaxChunks: \E lens \in [1..m -> 0..MaxChunkLen]:
          rd = [NoReader EXCEPT !.chunks = MkChunks(lens, 0),
                                !.body = Concat(MkChunks(lens, 0))]
NextReader == \E n \in 1..MaxBuf: ReaderRead(n)
SpecReader == InitReader /\ [][NextReader]_vars

\* ------------------------------------------------------------- playback
\* C1: an idle controller (empty sink, nothing under construction) that
\* consumes a Play intent starts exactly one attempt for it: the attempt count
\* goes up by one at the consume step, it does not move again while that
\* attempt is under construction, and when fetch and probe succeed the append
\* takes the sink from empty to one source.
C1_IdlePlayStartsOneAttempt ==
    [][\A k \in Tracks:
        /\ (ctl[k] = "wait" /\ sink[k] = 0 /\ unseen[k] /\ ~unseen'[k])
              => (ctl'[k] = "fetch" /\ attempts'[k] = attempts[k] + 1 /\ sink'[k] = 0)
        /\ (ctl[k] \in Constructing) => attempts'[k] = attempts[k]
        /\ (ctl[k] = "probe" /\ ctl'[k] = "wait") => (sink[k] = 0 /\ sink'[k] = 1)
      ]_vars

\* a second attempt has been appended after the first source drained by itself
C1_Witness == \E k \in Tracks: attempts[k] = 2 /\ sink[k] = 1 /\ stops[k] = 0

\* C2: a Play intent consumed while the sink is non-empty stops the sink (it is
\* empty right after), starts no attempt on that intent, and an attempt starts
\* only at a step that consumes an intent.
C2_PlayWhilePlayingStops ==
    [][\A k \in Tracks:
        /\ (ctl[k] = "wait" /\ sink[k] > 0 /\ unseen[k] /\ ~unseen'[k])
              => (sink'[k] = 0 /\ ctl'[k] = "wait" /\ attempts'[k] = attempts[k])
        /\ (attempts'[k] # attempts[k]) => (unseen[k] /\ ~unseen'[k])
      ]_vars

\* a source was stopped by a Play intent and a further intent started the next
C2_Witness == \E k \in Tracks: stops[k] = 1 /\ attempts[k] = 2 /\ sink[k] = 1

\* C3 as claimed: a failure on a track never aborts the process, and while the
\* process runs a failed controller leaves the terminal in raw mode.
C3_FailuresContained ==
    /\ proc # "panicked"
    /\ (Running /\ \E k \in Tracks: ctl[k] = "panicked") => term = "raw"

\* C4 as claimed: while the intent sender of a spawned controller is alive, the
\* controller task has not terminated.
C4_AliveWhileSenderAlive ==
    \A k \in Tracks:
        (Running /\ ctl[k] # "none" /\ ~closed[k]) => ctl[k] \notin {"ended", "panicked"}

\* C5: each track has at most one active stream: the sources in its sink plus
\* the attempt under construction never exceed one.
C5_OneActiveStream ==
    \A k \in Tracks: sink[k] + (IF ctl[k] \in Constructing THEN 1 ELSE 0) <= 1

\* after a start, a stop and a restart, an attempt is again under construction
C5_Witness ==
    \E k \in Tracks: attempts[k] >= 2 /\ stops[k] >= 1 /\ ctl[k] = "probe" /\ sink[k] = 0

\* C6 as claimed: a Play intent pending while fetch or probe is in progress can
\* be consumed by the controller right away.
C6_ConsumesDuringConstruction ==
    \A k \in Tracks:
        (ctl[k] \in {"fetch", "probe"} /\ unseen[k]) => ENABLED CtlConsume(k)

\* C6 amended: the controller consumes a Play intent only while it waits on the
\* intent channel, never while an attempt is under construction.
C6_ConsumesOnlyWhenWaiting ==
    [][\A k \in Tracks: (unseen[k] /\ ~unseen'[k]) => ctl[k] = "wait"]_vars

\* an intent sent during construction is pending while the probe is running
C6_Witness == \E k \in Tracks: ctl[k] = "probe" /\ unseen[k] /\ intents[k] = 2

\* ---------------------------------------------------------- input queue
\* events handed to tx.send so far
Forwarded ==
    IF inPc = "send" THEN held.id - 1 ELSE IF inPc = "done" THEN nRead - 1 ELSE nRead

\* C7 as claimed: no event that arrived while no interaction loop was receiving
\* is ever received by an interaction loop.
C7_SetupEventsDropped == lastRecv.kind # "none" => lastRecv.recv

\* C7 amended: no forwarded event is dropped; the events not yet received,
\* those that arrived during setup included, wait in the queue in arrival order.
C7_SetupEventsBuffered ==
    /\ Len(queue) = Forwarded - lastRecv.id
    /\ \A i \in 1..Len(queue): queue[i].id = lastRecv.id + i

\* track 2's loop received an event that arrived during track 2's setup
C7_Witness ==
    /\ cur = 2 /\ mainPc = "loop"
    /\ lastRecv.kind # "none" /\ ~lastRecv.recv /\ lastRecv.song = 2

\* C8: forwarded events are received in the order the input task read them,
\* each at most once: arrival numbers grow strictly from the last received
\* event through the queue to the event being sent.
C8_InOrderAtMostOnce ==
    /\ \A i \in 1..Len(queue): queue[i].id > lastRecv.id
    /\ \A i, j \in 1..Len(queue): i < j => queue[i].id < queue[j].id
    /\ inPc = "send" => /\ held.id > lastRecv.id
                        /\ \A i \in 1..Len(queue): queue[i].id < held.id

\* the queue is full behind an event that has been received
C8_Witness == Len(queue) = QueueCap /\ lastRecv.id = 1

\* ------------------------------------------------------- selection list
\* C11 as claimed: an advance recolors the entry that was selected before it,
\* the track just left, and no other: the entries of the tracks advanced past
\* are Green and all the others are White.
C11_FinishedEntryRecolored ==
    Len(colors) = NSongs =>
        \A k \in Tracks: colors[k] = IF closed[k] THEN "Green" ELSE "White"

\* the calls i..j of the log are all calls of op
AllCalls(op, i, j) == \A m \in i..j: listLog[m].op = op

\* C12: on a list of N >= 1 items, next() with nothing selected selects index
\* 0, next() at index i selects (i + 1) mod N, and N calls of next() in a row
\* that start at index 0 end at index 0.
C12_NextCycles ==
    LET N == Len(colors) IN
    /\ \A i \in 1..Len(listLog): listLog[i].op = "next" =>
          listLog[i].to = IF listLog[i].from = None THEN 0
                          ELSE (listLog[i].from + 1) % N
    /\ \A i \in 1..Len(listLog):
          (i + N - 1 <= Len(listLog) /\ AllCalls("next", i, i + N - 1)
             /\ listLog[i].from = 0) => listLog[i + N - 1].to = 0

\* on 3 items: next() from no selection, then 3 more calls back to index 0
C12_Witness ==
    /\ Len(colors) = 3 /\ Len(listLog) = 4 /\ AllCalls("next", 1, 4)
    /\ listLog[1].from = None /\ listLog[2].to = 1 /\ sel = 0

\* a call of op and the call after it, of the other direction
Opposite(i) ==
    /\ i + 1 <= Len(listLog)
    /\ {listLog[i].op, listLog[i + 1].op} = {"next", "previous"}

\* C13 as claimed: from every selection state, no selection included, next()
\* then previous() and previous() then next() restore the state.
C13_InverseEverywhere ==
    \A i \in 1..Len(listLog): Opposite(i) => listLog[i + 1].to = listLog[i].from

\* C13 amended: from every selected index next() then previous() and
\* previous() then next() restore the index, previous() at index 0 selects
\* N - 1, and on 3 items with nothing selected next() selects 0 and the
\* previous() after it selects 2; no selection is not restored, both calls
\* always select an item.
C13_InverseOnIndexes ==
    LET N == Len(colors) IN
    /\ \A i \in 1..Len(listLog):
          (Opposite(i) /\ listLog[i].from # None) => listLog[i + 1].to = listLog[i].from
    /\ \A i \in 1..Len(listLog):
          (listLog[i].op = "previous" /\ listLog[i].from = 0) => listLog[i].to = N - 1
    /\ \A i \in 1..Len(listLog): listLog[i].to # None => listLog[i].to \in 0..(N - 1)
    /\ (N = 3 /\ Len(listLog) >= 2 /\ listLog[1].op = "next"
           /\ listLog[2].op = "previous") => (listLog[1].to = 0 /\ listLog[2].to = 2)

\* on 3 items: next() from no selection selected 0, previous() wrapped to 2,
\* and next() wrapped back to 0
C13_Witness ==
    /\ Len(colors) = 3 /\ Len(listLog) = 3
    /\ listLog[1].op = "next" /\ listLog[1].from = None
    /\ listLog[2].op = "previous" /\ listLog[2].to = 2
    /\ listLog[3].op = "next" /\ sel = 0

\* -------------------------------------------------------- bridge adapter
\* the bytes returned by the reads before read i
ReadBefore(i) == Sum(SubSeq(rd.rets, 1, i - 1))

\* the bytes returned are the body's bytes in order, a read returns 0 only
\* when the whole body has been returned, and a positive count before that
ReadsFollowBody ==
    /\ rd.out = SubSeq(rd.body, 1, Len(rd.out))
    /\ Len(rd.out) = Sum(rd.rets)
    /\ \A i \in 1..Len(rd.rets):
          (rd.rets[i] = 0) <=> (ReadBefore(i) = Len(rd.body))

\* C14 as claimed: the reads return the body's bytes in order, a positive
\* count while data remains, and 0 exactly once, at the end of the stream.
C14_ZeroExactlyOnce ==
    /\ ReadsFollowBody
    /\ Cardinality({i \in 1..Len(rd.rets): rd.rets[i] = 0}) <= 1

\* C14 amended: the reads return the body's bytes in order, a positive count
\* while data remains whatever chunks of length 0 come first, and 0 at the
\* end of the stream and at every read after it; a read is always possible.
C14_ZeroFromEndOn ==
    /\ ReadsFollowBody
    /\ \A i, j \in 1..Len(rd.rets): (rd.rets[i] = 0 /\ i < j) => rd.rets[j] = 0
    /\ Len(rd.rets) < MaxReads => \A n \in 1..MaxBuf: ENABLED ReaderRead(n)

\* a body that starts with a chunk of length 0 was read to its end, and the
\* read after the end returned 0 again
C14_Witness ==
    /\ Len(rd.body) >= 2 /\ rd.out = rd.body
    /\ Len(rd.rets) >= 3
    /\ rd.rets[Len(rd.rets)] = 0 /\ rd.rets[Len(rd.rets) - 1] = 0
    /\ rd.chunks = <<>> /\ rd.eof

\* ------------------------------------------------------------- shutdown
\* C15: when the process has ended, by the quit key, by the end of the
\* playlist or by a panic of main, the terminal is restored; the quit path
\* and the end of the playlist end it with code 0, and the playlist ends
\* only after one advance per track.
C15_RestoredOnEveryExit ==
    /\ proc # "running" => term = "restored"
    /\ exPc = "done" => (proc = "exited" /\ inPc = "done")
    /\ mainPc = "done" => (proc = "exited" /\ \A k \in Tracks: closed[k])
    /\ proc = "exited" => (exPc = "done" \/ mainPc = "done")

\* the user quit after a controller had panicked: the process has ended
C15_Witness ==
    /\ proc = "exited" /\ exPc = "done" /\ term = "restored"
    /\ \E k \in Tracks: ctl[k] = "panicked"

\* --------------------------------------------------------- supersession
\* C16 as claimed: after the advance the controller of the track left can
\* always go on towards its end, whatever it was doing at the advance: while
\* it has not terminated it has a step to take.
C16_SupersededControllerEnds ==
    \A k \in Tracks:
        (Running /\ closed[k] /\ ctl[k] \notin {"none", "ended", "panicked"})
            => ENABLED CtlStep(k)

C18_ProbeFailureNotRetried ==
    [][\A k \in Tracks:
        /\ (ctl[k] = "probe" /\ cause'[k] = "probe") => (sink[k] = 0 /\ sink'[k] = 0)
        /\ cause[k] = "probe" =>
              /\ sink'[k] = 0 /\ attempts'[k] = attempts[k]
              /\ ctl[k] = "panicked" /\ ctl'[k] = "panicked"
      ]_vars

\* track 1's probe failed and the user then advanced to track 2
C18_Witness == cause[1] = "probe" /\ attempts[1] = 1 /\ sink[1] = 0 /\ cur = 2

\* C19 as claimed: once a track's intent sender is dropped its controller
\* starts no new attempt.
C19_NoAttemptAfterAdvance ==
    [][\A k \in Tracks: closed[k] => attempts'[k] = attempts[k]]_vars

\* controller transitions of track k: attempts started plus stops made
Transitions(k) == attempts[k] + stops[k]

\* C20: the Play intents pass through one slot: the intents sent before the
\* controller consumes make one transition, a start or a stop, at that
\* consume step and none elsewhere; the transitions plus the pending intent
\* never exceed the intents sent, and before any intent is sent nothing is
\* pending and nothing starts.
C20_IntentsCoalesce ==
    /\ [](\A k \in Tracks:
            /\ Transitions(k) + (IF unseen[k] THEN 1 ELSE 0) <= intents[k]
            /\ intents[k] = 0 => (~unseen[k] /\ sink[k] = 0))
    /\ [][\A k \in Tracks:
            /\ (unseen[k] /\ ~unseen'[k]) =>
                  (attempts'[k] + stops'[k] = Transitions(k) + 1)
            /\ (attempts'[k] + stops'[k] # Transitions(k)) =>
                  (unseen[k] /\ ~unseen'[k])
         ]_vars

\* two intents were sent before the controller consumed: one transition
C20_Witness ==
    \E k \in Tracks:
        intents[k] = 2 /\ Transitions(k) = 1 /\ ~unseen[k] /\ ctl[k] = "fetch"

\* C21 as claimed: the quit key, which the user presses at the latest after
\* MaxBurst other keys, is always eventually acted upon whatever the track
\* driver is doing: the process ends.
C21_QuitEventuallyActedUpon == <>(proc # "running")

\* C22: whenever main is in the body of the for loop for a track before the
\* advance has moved the selection (setup, spawn, the interaction loop, the
\* wait for the list's lock), the selected index is that track's 0-based
\* position, and a selected index is always within 0..NSongs-1.
C22_SelectionFollowsTrack ==
    /\ sel # None => sel \in 0..(NSongs - 1)
    /\ mainPc \in {"setup", "spawn", "loop", "enterLock"} => sel = cur - 1
    /\ mainPc \in {"init", "initList"} => sel = None

\* the loop of the second track has received a preview key: index 1 selected
C22_Witness ==
    /\ cur = 2 /\ mainPc = "loop" /\ sel = 1
    /\ lastRecv.kind = "p" /\ lastRecv.recv

\* ------------------------------------------------------------ rendering
\* C9 as claimed: every draw renders the latest published UI state.
C9_DrawsLatest == uiPc = "draw" => uiLocal = appVer

\* C9 amended: the state a draw renders is the one the render task last took
\* from the cell; when it is older than the latest published one, a state
\* change is still unseen, so a further wake and draw follow.
C9_StaleDrawHasWakePending ==
    (uiPc \in {"wait", "lockTerm", "lockStates", "draw"} /\ uiLocal # appVer)
        => uiSeen # appVer

\* a draw is rendering a state older than the published one
C9_Witness == uiPc = "draw" /\ uiLocal # appVer

\* C10: the list is read and written under the one lock only: a draw holds
\* it and never overlaps the list's initialisation or an advance between its
\* index step and its recolor step, and main holds it across those steps.
C10_ListOnlyUnderLock ==
    /\ uiPc = "draw" =>
          (statesLock = "ui" /\ mainPc \notin {"initList", "enterNext", "enterColor"})
    /\ mainPc \in {"initList", "enterNext", "enterColor"} => statesLock = "main"

\* the render task waits for the lock while the advance is half done
C10_Witness == mainPc = "enterColor" /\ uiPc = "lockStates" /\ termLock = "ui"
====
